---- MODULE Spec2Model ----
(***************************************************************************)
(* Visiting-card bot (rk2420/RK-tele-bot).                                 *)
(*                                                                         *)
(* src/telebot.py is the program that runs: its two Telegram handlers and  *)
(* the helpers they call are the state machine Spec.                       *)
(* src/main.py does not compile as a whole (the dictionary at lines        *)
(* 263-277 is at module level and line 279 is indented under nothing), so  *)
(* its functions and its two record-building fragments are modelled as     *)
(* operators and exercised by the pipeline SpecMain.                       *)
(*                                                                         *)
(* Python values:                                                          *)
(*   str   a sequence of one-character strings                             *)
(*   JSON  [k |-> kind, v |-> payload]; the payload is always a sequence   *)
(*         of strs: <<s>> for a string, the items for a list, <<>> else    *)
(*   dict  a function from key names to JSON values                        *)
(*   ai_data  [k |-> "dict" | other kind (None is "null"), d |-> dict,     *)
(*            v |-> payload when the value is not a dict]                  *)
(***************************************************************************)
EXTENDS Integers, Sequences, FiniteSets, TLC

(* ------------------------------ bounds -------------------------------- *)
MaxImages == 2      \* image events dispatched in one run
MaxTexts == 1       \* text events dispatched in one run
MaxContent == 3     \* tokens of an exhaustively enumerated model answer
MaxRaw == 3         \* characters of an exhaustively enumerated OCR text

(* --------------------------- Python strings --------------------------- *)
NotFound == <<"N", "o", "t", " ", "F", "o", "u", "n", "d">>

Digits == {"0", "1", "2", "3", "4", "5", "6", "7", "8", "9"}
Spaces == {" ", "\t", "\n"}
Punctuation == {"@", ".", "-", "+", ":", "/", "(", ")", "[", "]", "|", ","}

IsDigit(ch) == ch \in Digits
IsSpace(ch) == ch \in Spaces
\* \w of Python's re: the texts of the model hold letters, digits, Spaces and Punctuation
IsWord(ch) == ch \notin Spaces \cup Punctuation

\* s[i..j] as a sequence (empty when j < i)
Slice(s, i, j) == IF j < i THEN <<>> ELSE SubSeq(s, i, j)

\* whether pat occurs in s at position i
StartsWithAt(s, i, pat) ==
    /\ i >= 1
    /\ i + Len(pat) - 1 <= Len(s)
    /\ \A n \in 1..Len(pat) : s[i + n - 1] = pat[n]

\* str.strip(): without leading and trailing whitespace
Strip(s) ==
    LET keep == {i \in 1..Len(s) : ~IsSpace(s[i])}
    IN  IF keep = {} THEN <<>>
        ELSE LET lo == CHOOSE i \in keep : \A j \in keep : i <= j
                 hi == CHOOSE i \in keep : \A j \in keep : i >= j
             IN  SubSeq(s, lo, hi)

\* str.replace(old, new): leftmost, non-overlapping occurrences
RECURSIVE ReplaceFrom(_, _, _, _)
ReplaceFrom(s, i, old, new) ==
    IF i > Len(s) THEN <<>>
    ELSE IF StartsWithAt(s, i, old)
         THEN new \o ReplaceFrom(s, i + Len(old), old, new)
         ELSE <<s[i]>> \o ReplaceFrom(s, i + 1, old, new)

Replace(s, old, new) == ReplaceFrom(s, 1, old, new)

\* str.split(" "): the pieces between single spaces (empty pieces kept)
RECURSIVE SplitFrom(_, _, _)
SplitFrom(s, i, cur) ==
    IF i > Len(s) THEN <<cur>>
    ELSE IF s[i] = " " THEN <<cur>> \o SplitFrom(s, i + 1, <<>>)
         ELSE SplitFrom(s, i + 1, Append(cur, s[i]))

Split(s) == SplitFrom(s, 1, <<>>)

\* sep.join(parts)
RECURSIVE Join(_, _)
Join(sep, parts) ==
    IF parts = <<>> THEN <<>>
    ELSE IF Len(parts) = 1 THEN parts[1]
         ELSE parts[1] \o sep \o Join(sep, Tail(parts))

\* the character classes of the patterns: [\d\s\-], [\w\.-], \S, \s
InClass(cls, ch) ==
    CASE cls = "phone" -> IsDigit(ch) \/ IsSpace(ch) \/ ch = "-"
      [] cls = "email" -> IsWord(ch) \/ ch = "." \/ ch = "-"
      [] cls = "nonspace" -> ~IsSpace(ch)
      [] cls = "space" -> IsSpace(ch)

\* the end of the longest run of characters of class cls starting at i (i-1 if none)
RunEnd(s, i, cls) ==
    LET ends == {j \in (i - 1)..Len(s) : \A n \in i..j : InClass(cls, s[n])}
    IN  CHOOSE j \in ends : \A m \in ends : j >= m

\* all sequences over S of length at most n
BoundedSeq(S, n) == UNION {[1..m -> S] : m \in 0..n}

(* ---------------------------- JSON values ----------------------------- *)
JStr(s) == [k |-> "str", v |-> <<s>>]
JList(items) == [k |-> "list", v |-> items]
JNull == [k |-> "null", v |-> <<>>]
JNum == [k |-> "num", v |-> <<>>]

NoDict == <<>>
AiDict(d) == [k |-> "dict", d |-> d, v |-> <<>>]
AiOther(j) == [k |-> j.k, d |-> NoDict, v |-> j.v]
\* Python's None
None == AiOther(JNull)
\* a raised exception, as the result of an operator that models a call
Raised == [k |-> "raise", d |-> NoDict, v |-> <<>>]

\* dict.get(key, default)
Get(d, key, default) == IF key \in DOMAIN d THEN d[key] ELSE default

\* truthiness of a JSON value: "", [], None are falsy (numbers of the model are non-zero)
Truthy(j) == CASE j.k = "str" -> j.v[1] # <<>>
               [] j.k = "list" -> j.v # <<>>
               [] j.k = "null" -> FALSE
               [] OTHER -> TRUE

(* ------------------- the model's answer, as tokens -------------------- *)
\* The message content is a sequence of lexical tokens: braces, whole
\* "key": value members (the commas go with them), scalar literals, prose.
Tok(t) == [t |-> t, key |-> "", val |-> JNull]
Member(key, val) == [t |-> "mem", key |-> key, val |-> val]
LB == Tok("{")
RB == Tok("}")
Junk == Tok("junk")
NumLit == [t |-> "lit", key |-> "", val |-> JNum]
NullLit == [t |-> "lit", key |-> "", val |-> JNull]
ListLit == [t |-> "lit", key |-> "", val |-> JList(<<>>)]

\* json.loads(content): the value, or Raised
JsonLoads(content) ==
    IF Len(content) = 1 /\ content[1].t = "lit"
    THEN AiOther(content[1].val)
    ELSE IF /\ Len(content) >= 2
            /\ content[1] = LB
            /\ content[Len(content)] = RB
            /\ \A i \in 2..(Len(content) - 1) : content[i].t = "mem"
         THEN LET idx == 2..(Len(content) - 1)
                  keys == {content[i].key : i \in idx}
                  last(key) == CHOOSE i \in idx :
                                  /\ content[i].key = key
                                  /\ \A j \in idx : content[j].key = key => j <= i
              IN  AiDict([key \in keys |-> content[last(key)].val])
         ELSE Raised

(* ------------------- src/telebot.py: regex_extract -------------------- *)
\* the end of the match of \+?\d[\d\s\-]{8,} at i, 0 when it does not match there
PhoneAt(s, i) ==
    LET d == IF s[i] = "+" THEN i + 1 ELSE i
    IN  IF d <= Len(s) /\ IsDigit(s[d]) /\ RunEnd(s, d + 1, "phone") - d >= 8
        THEN RunEnd(s, d + 1, "phone")
        ELSE 0

\* the end of the match of [\w\.-]+@[\w\.-]+ at i, 0 when it does not match there
EmailAt(s, i) ==
    LET j == RunEnd(s, i, "email")
    IN  IF /\ j >= i
           /\ j + 2 <= Len(s)
           /\ s[j + 1] = "@"
           /\ InClass("email", s[j + 2])
        THEN RunEnd(s, j + 2, "email")
        ELSE 0

\* the end of the match of (https?://\S+|www\.\S+) at i, 0 when it does not match there
WebsiteAt(s, i) ==
    LET rest(q) == IF RunEnd(s, q, "nonspace") >= q THEN RunEnd(s, q, "nonspace") ELSE 0
    IN  IF StartsWithAt(s, i, <<"h", "t", "t", "p", "s", ":", "/", "/">>) THEN rest(i + 8)
        ELSE IF StartsWithAt(s, i, <<"h", "t", "t", "p", ":", "/", "/">>) THEN rest(i + 7)
        ELSE IF StartsWithAt(s, i, <<"w", "w", "w", ".">>) THEN rest(i + 4)
        ELSE 0

\* re.findall(...)[0] if any else "Not Found": the leftmost match
MatchEnd(pattern, s, i) ==
    CASE pattern = "phone" -> PhoneAt(s, i)
      [] pattern = "email" -> EmailAt(s, i)
      [] pattern = "website" -> WebsiteAt(s, i)

FirstMatch(pattern, s) ==
    LET starts == {i \in 1..Len(s) : MatchEnd(pattern, s, i) > 0}
    IN  IF starts = {} THEN NotFound
        ELSE LET i == CHOOSE x \in starts : \A y \in starts : x <= y
             IN  SubSeq(s, i, MatchEnd(pattern, s, i))

regex_extract(text) ==
    [Phone |-> FirstMatch("phone", text),
     Email |-> FirstMatch("email", text),
     Website |-> FirstMatch("website", text)]


(* --------------------- src/telebot.py: ai_extract --------------------- *)
\* What requests.post and r.json() can produce.  The status is carried but
\* never read by the code; a non-2xx answer of the completion service has
\* an error object or no JSON for a body, never a completion.
HttpError(kind) == [kind |-> kind, status |-> "none", body |-> "none", content |-> <<>>]
HttpResponse(status, body, content) ==
    [kind |-> "response", status |-> status, body |-> body, content |-> content]

AiKeys == {"Name", "Designation", "Company", "Address", "Industry", "Services"}

\* the dictionary of the except: branch
FailureDict == [key \in AiKeys |-> JStr(NotFound)]

\* r.json()["choices"][0]["message"]["content"]: whether it evaluates
HasContent(http) == http.kind = "response" /\ http.body = "completion"

telebot_ai_extract(http) ==
    IF HasContent(http) /\ JsonLoads(http.content) # Raised
    THEN JsonLoads(http.content)
    ELSE AiDict(FailureDict)

(* ------------------- src/telebot.py: image_handler -------------------- *)
Ok(rec) == [k |-> "ok", rec |-> rec]
Fault == [k |-> "raise", rec |-> <<>>]

\* as final_data_of, but a Phone, Email or Website of the model's answer wins
final_data_ai_first(regex_data, ai_data) ==
    IF ai_data.k # "dict" THEN Fault
    ELSE Ok([Name |-> Get(ai_data.d, "Name", JStr(NotFound)),
             Designation |-> Get(ai_data.d, "Designation", JStr(NotFound)),
             Company |-> Get(ai_data.d, "Company", JStr(NotFound)),
             Phone |-> Get(ai_data.d, "Phone", JStr(regex_data.Phone)),
             Email |-> Get(ai_data.d, "Email", JStr(regex_data.Email)),
             Website |-> Get(ai_data.d, "Website", JStr(regex_data.Website)),
             Address |-> Get(ai_data.d, "Address", JStr(NotFound)),
             Industry |-> Get(ai_data.d, "Industry", JStr(NotFound)),
             Services |-> Get(ai_data.d, "Services", JStr(NotFound))])

\* final_data = {...}: ai_data.get raises AttributeError unless ai_data is a dict
final_data_of(regex_data, ai_data) ==
    IF ai_data.k # "dict" THEN Fault
    ELSE Ok([Name |-> Get(ai_data.d, "Name", JStr(NotFound)),
             Designation |-> Get(ai_data.d, "Designation", JStr(NotFound)),
             Company |-> Get(ai_data.d, "Company", JStr(NotFound)),
             Phone |-> JStr(regex_data.Phone),
             Email |-> JStr(regex_data.Email),
             Website |-> JStr(regex_data.Website),
             Address |-> Get(ai_data.d, "Address", JStr(NotFound)),
             Industry |-> Get(ai_data.d, "Industry", JStr(NotFound)),
             Services |-> Get(ai_data.d, "Services", JStr(NotFound))])

\* save_to_sheet(chat_id, data): the row handed to sheet.append_row (the timestamp left out)
append_row(chat_id, data) == [chat |-> chat_id, data |-> data]

\* as Put, but a field the new record lacks keeps the old record's value
PutMerge(ctx, chat_id, rec) ==
    [c \in DOMAIN ctx \cup {chat_id} |->
        IF c # chat_id THEN ctx[c]
        ELSE IF c \notin DOMAIN ctx THEN rec
        ELSE [f \in DOMAIN rec |-> IF rec[f] = JStr(NotFound) THEN ctx[c][f] ELSE rec[f]]]

\* as Put, but one slot shared by every chat
PutShared(ctx, chat_id, rec) == [c \in {"c1", "c2"} |-> rec]

\* user_context[chat_id] = final_data
Put(ctx, chat_id, rec) ==
    [c \in DOMAIN ctx \cup {chat_id} |-> IF c = chat_id THEN rec ELSE ctx[c]]

(* ----------------------- src/main.py: helpers ------------------------- *)
\* safe(v): v if v and str(v).strip() else "Not Found"
safe(v) ==
    IF Truthy(v) /\ (v.k = "str" => Strip(v.v[1]) # <<>>) THEN v ELSE JStr(NotFound)

\* the replacements dictionary, in insertion order
Replacements ==
    << <<(<<"(", "a", "t", ")">>), <<"@">>>>,
       <<(<<"[", "a", "t", "]">>), <<"@">>>>,
       <<(<<" ", "a", "t", " ">>), <<"@">>>>,
       <<(<<" ", "d", "o", "t", " ">>), <<".">>>>,
       <<(<<"|">>), <<"1">>>>,
       <<(<<"I">>), <<"1">>>>,
       <<(<<"l">>), <<"1">>>>,
       <<(<<"O">>), <<"0">>>>,
       <<(<<"o">>), <<"0">>>> >>

RECURSIVE ApplyReplacements(_, _)
ApplyReplacements(s, n) ==
    IF n > Len(Replacements) THEN s
    ELSE ApplyReplacements(Replace(s, Replacements[n][1], Replacements[n][2]), n + 1)

\* re.sub(r"\s{2,}", " ", text)
RECURSIVE CollapseFrom(_, _)
CollapseFrom(s, i) ==
    IF i > Len(s) THEN <<>>
    ELSE IF IsSpace(s[i]) /\ RunEnd(s, i, "space") > i
         THEN <<" ">> \o CollapseFrom(s, RunEnd(s, i, "space") + 1)
         ELSE <<s[i]>> \o CollapseFrom(s, i + 1)

clean_text(text) ==
    Strip(CollapseFrom(ApplyReplacements(Replace(text, <<"\n">>, <<" ">>), 1), 1))

(* ------------- src/main.py: safe_json_load and ai_extract ------------- *)
\* re.search(r'\{.*\}', text, re.DOTALL): from the first "{" to the last "}"
BraceSpan(content) ==
    LET opens == {i \in 1..Len(content) : content[i] = LB}
        closes == {i \in 1..Len(content) : content[i] = RB}
    IN  IF opens = {} \/ closes = {} THEN <<>>
        ELSE LET first == CHOOSE i \in opens : \A j \in opens : i <= j
                 last == CHOOSE i \in closes : \A j \in closes : i >= j
             IN  Slice(content, first, last)

safe_json_load(content) ==
    IF JsonLoads(content) # Raised THEN JsonLoads(content)
    ELSE IF BraceSpan(content) # <<>> /\ JsonLoads(BraceSpan(content)) # Raised
         THEN JsonLoads(BraceSpan(content))
         ELSE None

main_ai_extract(http) ==
    IF HasContent(http) THEN safe_json_load(http.content) ELSE None


(* ------------ src/main.py: the two record-building fragments ---------- *)
\* a or b
Or(a, b) == IF Truthy(a) THEN a ELSE b

\* ", ".join(v): of a list of strs, or of the characters of a str; TypeError otherwise
JoinServices(v) ==
    IF v.k = "list" THEN Ok(JStr(Join(<<",", " ">>, v.v)))
    ELSE IF v.k = "str"
         THEN Ok(JStr(Join(<<",", " ">>, [i \in 1..Len(v.v[1]) |-> <<v.v[1][i]>>])))
         ELSE Fault

\* name_guess = cleaned.split(" ")[0:2]; " ".join(name_guess) if name_guess else "Not Found"
name_guess(cleaned) ==
    LET parts == Split(cleaned)
        two == SubSeq(parts, 1, IF Len(parts) < 2 THEN Len(parts) ELSE 2)
    IN  IF two # <<>> THEN Join(<<" ">>, two) ELSE NotFound

RealEstateAgent == <<"R", "e", "a", "l", " ", "E", "s", "t", "a", "t", "e", " ", "A", "g", "e", "n", "t">>
RealEstate == <<"R", "e", "a", "l", " ", "E", "s", "t", "a", "t", "e">>
PropertySalesLeasing == <<"P", "r", "o", "p", "e", "r", "t", "y", " ", "S", "a", "l", "e", "s", ",", " ", "L", "e", "a", "s", "i", "n", "g">>

\* lines 263-277: the vertical-specialised record
fallback_final_data(cleaned, det, ai_data) ==
    IF ai_data.k # "dict" THEN Fault
    ELSE LET d == ai_data.d
             services == IF Truthy(Get(d, "Services", JNull))
                         THEN JoinServices(Get(d, "Services", JNull))
                         ELSE Ok(JStr(PropertySalesLeasing))
         IN  IF services.k # "ok" THEN Fault
             ELSE Ok([Name |-> safe(Or(Get(d, "Name", JNull), JStr(name_guess(cleaned)))),
                      Designation |-> safe(Or(Get(d, "Designation", JNull), JStr(RealEstateAgent))),
                      Company |-> safe(Or(Get(d, "Company", JNull), JStr(NotFound))),
                      Phone |-> JStr(det.Phone),
                      Email |-> JStr(det.Email),
                      Website |-> JStr(det.Website),
                      Address |-> safe(Get(d, "Address", JNull)),
                      Industry |-> safe(Or(Get(d, "Industry", JNull), JStr(RealEstate))),
                      Services |-> services.rec])

\* lines 279-289: the generic record
safe_final_data(det, ai_data) ==
    IF ai_data.k # "dict" THEN Fault
    ELSE LET d == ai_data.d
             services == IF Truthy(Get(d, "Services", JNull))
                         THEN JoinServices(Get(d, "Services", JNull))
                         ELSE Ok(JStr(NotFound))
         IN  IF services.k # "ok" THEN Fault
             ELSE Ok([Name |-> safe(Get(d, "Name", JNull)),
                      Designation |-> safe(Get(d, "Designation", JNull)),
                      Company |-> safe(Get(d, "Company", JNull)),
                      Phone |-> JStr(det.Phone),
                      Email |-> JStr(det.Email),
                      Website |-> JStr(det.Website),
                      Address |-> safe(Get(d, "Address", JNull)),
                      Industry |-> safe(Get(d, "Industry", JNull)),
                      Services |-> services.rec])

(* ------------------------------ inputs -------------------------------- *)
Chats == {"c1", "c2"}

\* OCR texts: every short text over RawChars, and two cards
RawChars == {"J", "o", " "}
CardText == <<"+", "9", "1", " ", "9", "8", "7", "6", "5", "4", "3", "2", "1", "0", " ", "a", "@", "b", ".", "c", "o", " ", "w", "w", "w", ".", "b", ".", "c", "o">>
JaneText == <<"J", "a", "n", "e", " ", "D", "o", "e", " ", "R", "e", "a", "l", "t", "y", " ", "G", "r", "o", "u", "p">>
OcrTexts == BoundedSeq(RawChars, MaxRaw) \cup {CardText, JaneText}

\* model answers: every short token sequence over ContentToks, and five samples
Amit == <<"A", "m", "i", "t">>
ContentToks == {LB, RB, Junk, NumLit}
FullContent ==
    <<LB, Member("Name", JStr(Amit)), Member("Designation", JStr(<<"C", "E", "O">>)),
      Member("Company", JStr(<<"A", "c", "m", "e">>)), Member("Address", JStr(<<>>)),
      Member("Industry", JStr(<<"T", "e", "c", "h">>)),
      Member("Services", JList(<<<<"C", "o", "n", "s", "u", "l", "t", "i", "n", "g">>, <<"A", "u", "d", "i", "t">>>>)), RB>>
EmbeddedContent == <<Junk>> \o FullContent \o <<Junk>>
PartialContent ==
    <<LB, Member("Name", JStr(<<>>)), Member("Company", JNull),
      Member("Phone", JStr(<<"0", "0", "0">>)), Member("Services", JList(<<>>)), RB>>
Contents ==
    BoundedSeq(ContentToks, MaxContent)
        \cup {FullContent, EmbeddedContent, PartialContent, <<NullLit>>, <<ListLit>>}

HttpOutcomes ==
    {HttpError("transport"), HttpError("timeout")}
        \cup {HttpResponse(st, b, <<>>) : st \in {"2xx", "non2xx"}, b \in {"not_json", "error_object"}}
        \cup {HttpResponse("2xx", "completion", c) : c \in Contents}

\* what the pure helpers return over the inputs
RegexResults == {regex_extract(t) : t \in OcrTexts}
TelebotAiResults == {telebot_ai_extract(h) : h \in HttpOutcomes}
MainAiResults == {main_ai_extract(h) : h \in HttpOutcomes}


(* ------------------------------- state -------------------------------- *)
VARIABLES
    pc,             \* telebot.py: where the handler of each chat stands ("idle": none runs)
    regex_data,     \* image_handler's local, per chat
    ai_data,        \* image_handler's local, per chat
    final_data,     \* image_handler's local, per chat
    company_data,   \* text_handler's argument to answer_followup, per chat
    user_context,   \* the module's dictionary: chat id -> record
    sheet,          \* the row last appended to the sheet (NoRow before the first)
    replies,        \* the reply last sent to each chat ("none" before the first)
    llm_calls,      \* the requests each chat's handlers posted to the completion service
    puts,           \* history: the records assigned to user_context[c], oldest first
    images,         \* image events dispatched so far
    texts,          \* text events dispatched so far
    m_pc,           \* main.py pipeline: the stage reached
    m_text,         \* main.py: the OCR text
    cleaned,        \* main.py: clean_text(text)
    m_det,          \* main.py: the fragments' phone, email, website
    m_ai_data,      \* main.py: ai_extract's result
    m_final,        \* main.py: the record built, or the fault
    p_http,         \* extractors: what the completion service produced
    p_telebot,      \* extractors: what telebot.py's ai_extract returned for it
    p_main          \* extractors: what main.py's ai_extract returned for it

botvars == <<pc, regex_data, ai_data, final_data, company_data, user_context, sheet,
             replies, llm_calls, puts, images, texts>>
mainvars == <<m_pc, m_text, cleaned, m_det, m_ai_data, m_final>>
parsevars == <<p_http, p_telebot, p_main>>
purevars == <<mainvars, parsevars>>
vars == <<botvars, mainvars, parsevars>>

NoRegex == [Phone |-> <<>>, Email |-> <<>>, Website |-> <<>>]
NoAi == [k |-> "unset", d |-> NoDict, v |-> <<>>]
NoRecord == <<>>
NoRow == [chat |-> "none", data |-> NoRecord]

BotInit ==
    /\ pc = [c \in Chats |-> "idle"]
    /\ regex_data = [c \in Chats |-> NoRegex]
    /\ ai_data = [c \in Chats |-> NoAi]
    /\ final_data = [c \in Chats |-> NoRecord]
    /\ company_data = [c \in Chats |-> NoRecord]
    /\ user_context = <<>>
    /\ sheet = NoRow
    /\ replies = [c \in Chats |-> "none"]
    /\ llm_calls = [c \in Chats |-> [extract |-> 0, followup |-> 0]]
    /\ puts = [c \in Chats |-> <<>>]
    /\ images = 0
    /\ texts = 0

MainIdle ==
    /\ m_pc = "off"
    /\ m_text = <<>>
    /\ cleaned = <<>>
    /\ m_det = NoRegex
    /\ m_ai_data = NoAi
    /\ m_final = Fault

ParseIdle ==
    /\ p_http = HttpError("none")
    /\ p_telebot = NoAi
    /\ p_main = NoAi

Init == BotInit /\ MainIdle /\ ParseIdle

(* ------------------- src/telebot.py: the handlers --------------------- *)
\* One handler at a time runs per chat.  Handlers of different chats may be
\* suspended at their awaits together: this is the most the event loop allows;
\* the dispatcher built at main() with its defaults handles one update at a
\* time, which is the subset of these behaviours without overlap.
Reply(c, what) == replies' = [replies EXCEPT ![c] = what]
ClearLocals(c) ==
    /\ regex_data' = [regex_data EXCEPT ![c] = NoRegex]
    /\ ai_data' = [ai_data EXCEPT ![c] = NoAi]
    /\ final_data' = [final_data EXCEPT ![c] = NoRecord]

\* an image arrives: the handler sends the acknowledgement and awaits it
ImageStart(c) ==
    /\ pc[c] = "idle"
    /\ images < MaxImages
    /\ images' = images + 1
    /\ Reply(c, "ack")
    /\ pc' = [pc EXCEPT ![c] = "get_file"]
    /\ UNCHANGED <<regex_data, ai_data, final_data, company_data, user_context, sheet,
                   llm_calls, puts, texts, purevars>>

\* await photo.get_file()
ImageGetFile(c) ==
    /\ pc[c] = "get_file"
    /\ pc' = [pc EXCEPT ![c] = "download"]
    /\ UNCHANGED <<regex_data, ai_data, final_data, company_data, user_context, sheet,
                   replies, llm_calls, puts, images, texts, purevars>>

\* await file.download_to_drive(path)
ImageDownload(c) ==
    /\ pc[c] = "download"
    /\ pc' = [pc EXCEPT ![c] = "process"]
    /\ UNCHANGED <<regex_data, ai_data, final_data, company_data, user_context, sheet,
                   replies, llm_calls, puts, images, texts, purevars>>

\* run_ocr raises (Image.open, readtext): nothing else of the handler runs
ImageOcrFails(c) ==
    /\ pc[c] = "process"
    /\ pc' = [pc EXCEPT ![c] = "fault"]
    /\ UNCHANGED <<regex_data, ai_data, final_data, company_data, user_context, sheet,
                   replies, llm_calls, puts, images, texts, purevars>>

\* lines 166-183, which run without an await: OCR, both extractions, the
\* record, the store and the sheet row
ImageProcess(c) ==
    /\ pc[c] = "process"
    /\ \E regex \in RegexResults, ai \in TelebotAiResults, appended \in BOOLEAN :
         LET built == final_data_of(regex, ai)
         IN  /\ llm_calls' = [llm_calls EXCEPT ![c].extract = @ + 1]
             /\ IF built.k # "ok"
                THEN /\ pc' = [pc EXCEPT ![c] = "fault"]
                     /\ UNCHANGED <<regex_data, ai_data, final_data, user_context, sheet, puts>>
                ELSE /\ user_context' = Put(user_context, c, built.rec)
                     /\ puts' = [puts EXCEPT ![c] = Append(@, built.rec)]
                     /\ IF appended
                        THEN /\ sheet' = append_row(c, built.rec)
                             /\ regex_data' = [regex_data EXCEPT ![c] = regex]
                             /\ ai_data' = [ai_data EXCEPT ![c] = ai]
                             /\ final_data' = [final_data EXCEPT ![c] = built.rec]
                             /\ pc' = [pc EXCEPT ![c] = "reply"]
                        ELSE /\ pc' = [pc EXCEPT ![c] = "fault"]
                             /\ UNCHANGED <<regex_data, ai_data, final_data, sheet>>
    /\ UNCHANGED <<company_data, replies, images, texts, purevars>>

\* await update.message.reply_markdown(reply)
ImageReply(c) ==
    /\ pc[c] = "reply"
    /\ Reply(c, "record")
    /\ ClearLocals(c)
    /\ pc' = [pc EXCEPT ![c] = "idle"]
    /\ UNCHANGED <<company_data, user_context, sheet, llm_calls, puts, images, texts, purevars>>

\* the exception leaves the handler; the dispatcher logs it and polls on
HandlerError(c) ==
    /\ pc[c] = "fault"
    /\ pc' = [pc EXCEPT ![c] = "idle"]
    /\ UNCHANGED <<regex_data, ai_data, final_data, company_data, user_context, sheet,
                   replies, llm_calls, puts, images, texts, purevars>>

\* as TextNoContext, but the question is sent to the completion service all the same
TextNoContextCalls(c) ==
    /\ pc[c] = "idle"
    /\ texts < MaxTexts
    /\ c \notin DOMAIN user_context
    /\ texts' = texts + 1
    /\ llm_calls' = [llm_calls EXCEPT ![c].followup = @ + 1]
    /\ pc' = [pc EXCEPT ![c] = "answer"]
    /\ UNCHANGED <<regex_data, ai_data, final_data, company_data, user_context, sheet,
                   replies, puts, images, purevars>>

\* a text arrives for a chat without a record
TextNoContext(c) ==
    /\ pc[c] = "idle"
    /\ texts < MaxTexts
    /\ c \notin DOMAIN user_context
    /\ texts' = texts + 1
    /\ pc' = [pc EXCEPT ![c] = "first"]
    /\ UNCHANGED <<regex_data, ai_data, final_data, company_data, user_context, sheet,
                   replies, llm_calls, puts, images, purevars>>

\* a text arrives for a chat with a record: answer_followup posts the request
\* and returns the answer, or the fixed message when anything raises
TextFollowup(c) ==
    /\ pc[c] = "idle"
    /\ texts < MaxTexts
    /\ c \in DOMAIN user_context
    /\ texts' = texts + 1
    /\ company_data' = [company_data EXCEPT ![c] = user_context[c]]
    /\ llm_calls' = [llm_calls EXCEPT ![c].followup = @ + 1]
    /\ \E answered \in BOOLEAN :
         pc' = [pc EXCEPT ![c] = IF answered THEN "answer" ELSE "unable"]
    /\ UNCHANGED <<regex_data, ai_data, final_data, user_context, sheet, replies, puts,
                   images, purevars>>

\* await update.message.reply_text(...)
TextReply(c) ==
    /\ pc[c] \in {"first", "answer", "unable"}
    /\ Reply(c, pc[c])
    /\ company_data' = [company_data EXCEPT ![c] = NoRecord]
    /\ pc' = [pc EXCEPT ![c] = "idle"]
    /\ UNCHANGED <<regex_data, ai_data, final_data, user_context, sheet, llm_calls, puts,
                   images, texts, purevars>>

Next ==
    \E c \in Chats :
        \/ ImageStart(c)
        \/ ImageGetFile(c)
        \/ ImageDownload(c)
        \/ ImageOcrFails(c)
        \/ ImageProcess(c)
        \/ ImageReply(c)
        \/ HandlerError(c)
        \/ TextNoContext(c)
        \/ TextFollowup(c)
        \/ TextReply(c)

Spec == Init /\ [][Next]_vars


(* ---------------- src/main.py: the pipeline of its pieces -------------- *)
\* One card through main.py's functions in the order image_handler and the
\* fragments after it use them.  regex_extract is called at line 234 but
\* defined nowhere in main.py, and phone, email, website are free names of
\* the fragments: they are given the values telebot.py's regex_extract has.
MainInit ==
    /\ BotInit
    /\ ParseIdle
    /\ m_pc = "ocr"
    /\ m_text \in OcrTexts
    /\ cleaned = <<>>
    /\ m_det = NoRegex
    /\ m_ai_data = NoAi
    /\ m_final = Fault

MClean ==
    /\ m_pc = "ocr"
    /\ cleaned' = clean_text(m_text)
    /\ m_pc' = "extract"
    /\ UNCHANGED <<m_text, m_det, m_ai_data, m_final, botvars, parsevars>>

MExtract ==
    /\ m_pc = "extract"
    /\ m_det' \in RegexResults
    /\ m_ai_data' \in MainAiResults
    /\ m_pc' = "build"
    /\ UNCHANGED <<m_text, cleaned, m_final, botvars, parsevars>>

\* lines 241-251
MBuildPlain ==
    /\ m_pc = "build"
    /\ m_final' = final_data_of(m_det, m_ai_data)
    /\ m_pc' = "plain"
    /\ UNCHANGED <<m_text, cleaned, m_det, m_ai_data, botvars, parsevars>>

\* lines 259-277
MBuildFallback ==
    /\ m_pc = "build"
    /\ m_final' = fallback_final_data(cleaned, m_det, m_ai_data)
    /\ m_pc' = "fallback"
    /\ UNCHANGED <<m_text, cleaned, m_det, m_ai_data, botvars, parsevars>>

\* lines 279-289
MBuildSafe ==
    /\ m_pc = "build"
    /\ m_final' = safe_final_data(m_det, m_ai_data)
    /\ m_pc' = "generic"
    /\ UNCHANGED <<m_text, cleaned, m_det, m_ai_data, botvars, parsevars>>

MainNext == MClean \/ MExtract \/ MBuildPlain \/ MBuildFallback \/ MBuildSafe

SpecMain == MainInit /\ [][MainNext]_vars

(* ------------- both ai_extract functions on one response -------------- *)
ParseInit ==
    /\ BotInit
    /\ MainIdle
    /\ p_http \in HttpOutcomes
    /\ p_telebot = NoAi
    /\ p_main = NoAi

PTelebot ==
    /\ p_telebot = NoAi
    /\ p_telebot' = telebot_ai_extract(p_http)
    /\ UNCHANGED <<p_http, p_main, botvars, mainvars>>

PMain ==
    /\ p_main = NoAi
    /\ p_main' = main_ai_extract(p_http)
    /\ UNCHANGED <<p_http, p_telebot, botvars, mainvars>>

ParseNext == PTelebot \/ PMain

SpecParse == ParseInit /\ [][ParseNext]_vars


(* ------------------------------ claims -------------------------------- *)
Fields == {"Name", "Designation", "Company", "Phone", "Email", "Website", "Address",
           "Industry", "Services"}
Populated(j) == j.k # "null" /\ ~(j.k = "str" /\ j.v[1] = <<>>) /\ ~(j.k = "list" /\ j.v = <<>>)
Slot(ctx, c) == IF c \in DOMAIN ctx THEN ctx[c] ELSE NoRecord
TextPcs == {"first", "answer", "unable"}

\* C1: every record the image handler stores has all nine fields, and none of
\* them is null, an empty string or an empty list.
C1_RecordPopulated ==
    \A c \in DOMAIN user_context :
        /\ DOMAIN user_context[c] = Fields
        /\ \A f \in Fields : Populated(user_context[c][f])

\* C2: whatever OCR, the extractor and the sheet do, no run of image_handler
\* ends with an exception.
C2_HandlerCompletes == \A c \in Chats : pc[c] # "fault"

\* C3: Phone, Email and Website of the record built are the values of
\* regex_extract, so two handlers with the same regex_data build the same three
\* fields whatever their ai_data.
C3_DeterministicFields ==
    /\ \A c \in Chats :
         pc[c] = "reply" =>
            /\ final_data[c].Phone = JStr(regex_data[c].Phone)
            /\ final_data[c].Email = JStr(regex_data[c].Email)
            /\ final_data[c].Website = JStr(regex_data[c].Website)
            /\ user_context[c].Phone = JStr(regex_data[c].Phone)
    /\ \A c1, c2 \in Chats :
         pc[c1] = "reply" /\ pc[c2] = "reply" /\ regex_data[c1] = regex_data[c2] =>
            /\ final_data[c1].Phone = final_data[c2].Phone
            /\ final_data[c1].Email = final_data[c2].Email
            /\ final_data[c1].Website = final_data[c2].Website

\* a record was built from an answer that carries its own Phone, which differs
\* from the phone number regex_extract found
C3_AiPhoneIgnored ==
    \E c \in Chats :
        /\ pc[c] = "reply"
        /\ "Phone" \in DOMAIN ai_data[c].d
        /\ regex_data[c].Phone # NotFound
        /\ ai_data[c].d["Phone"] # final_data[c].Phone

\* C4: ai_extract returns (it does not raise), and what it returns is a JSON
\* object or the failure marker of its file (None in main.py, the dictionary
\* of sentinels in telebot.py).
C4_ObjectOrFailure ==
    /\ p_main # NoAi => p_main # Raised /\ (p_main.k = "dict" \/ p_main = None)
    /\ p_telebot # NoAi => p_telebot # Raised /\ p_telebot.k = "dict"

\* C5: a text for a chat without a record posts nothing to the completion
\* service and is answered with the "image first" reply; a follow-up request is
\* posted only for a chat that has a record.
C5_NoRecordNoFollowupCall ==
    [][\A c \in Chats :
          /\ llm_calls'[c].followup # llm_calls[c].followup => c \in DOMAIN user_context
          /\ texts' # texts /\ pc'[c] # pc[c] /\ c \notin DOMAIN user_context =>
                pc'[c] = "first" /\ llm_calls' = llm_calls
          /\ pc[c] = "first" /\ pc'[c] # "first" => replies'[c] = "first"]_vars

\* a chat without a record got the "image first" reply and no request was
\* posted for it, while the other chat has a record
C5_FirstReplySent ==
    \E c \in Chats :
        /\ replies[c] = "first"
        /\ c \notin DOMAIN user_context
        /\ llm_calls[c].followup = 0
        /\ user_context # <<>>

\* C6: user_context holds, for each chat, exactly the record of the last
\* assignment to its slot, and nothing for a chat never assigned.
C6_PutOverwrites ==
    \A c \in Chats :
        IF puts[c] = <<>> THEN c \notin DOMAIN user_context
        ELSE c \in DOMAIN user_context /\ user_context[c] = puts[c][Len(puts[c])]

\* a slot was assigned twice, the second record lacking a field the first had
C6_SecondPutLacksField ==
    \E c \in Chats :
        /\ Len(puts[c]) = 2
        /\ user_context[c] = puts[c][2]
        /\ \E f \in Fields : puts[c][2][f] = JStr(NotFound) /\ puts[c][1][f] # JStr(NotFound)

\* C7: the vertical-specialised record has, when ai_extract failed or gave no
\* Name, the first two whitespace-separated tokens of the cleaned text for a
\* Name, and the sentinel when the cleaned text is empty.
RECURSIVE WsTokensFrom(_, _, _)
WsTokensFrom(s, i, cur) ==
    IF i > Len(s) THEN (IF cur = <<>> THEN <<>> ELSE <<cur>>)
    ELSE IF IsSpace(s[i])
         THEN (IF cur = <<>> THEN <<>> ELSE <<cur>>) \o WsTokensFrom(s, i + 1, <<>>)
         ELSE WsTokensFrom(s, i + 1, Append(cur, s[i]))
FirstTwoTokens(s) ==
    LET toks == WsTokensFrom(s, 1, <<>>)
    IN  Join(<<" ">>, SubSeq(toks, 1, IF Len(toks) < 2 THEN Len(toks) ELSE 2))
NoName(ai) == ai = None \/ (ai.k = "dict" /\ Get(ai.d, "Name", JStr(<<>>)) = JStr(<<>>))

C7_FallbackName ==
    m_pc = "fallback" /\ NoName(m_ai_data) =>
        /\ m_final.k = "ok"
        /\ m_final.rec.Name = JStr(IF cleaned = <<>> THEN NotFound ELSE FirstTwoTokens(cleaned))

\* C8: Services of the record stored and of the row appended is one string.
C8_ServicesIsString ==
    /\ \A c \in DOMAIN user_context : user_context[c].Services.k = "str"
    /\ sheet # NoRow => sheet.data.Services.k = "str"

\* C9: the record a follow-up reads for a chat is the one last assigned to the
\* chat's slot; a text handler's steps leave user_context alone; a slot changes
\* only in the processing step of its own chat's image handler, which changes
\* no other slot.
C9_ReadsLastPut ==
    [][\A c \in Chats :
          /\ pc[c] = "idle" /\ pc'[c] \in {"answer", "unable"} =>
                puts[c] # <<>> /\ company_data'[c] = puts[c][Len(puts[c])]
          /\ (pc[c] \in TextPcs \/ pc'[c] \in TextPcs) /\ pc'[c] # pc[c] =>
                user_context' = user_context
          /\ Slot(user_context', c) # Slot(user_context, c) =>
                /\ pc[c] = "process"
                /\ \A c2 \in Chats \ {c} : Slot(user_context', c2) = Slot(user_context, c2)]_vars

\* a follow-up read its chat's record while the other chat holds another one
C9_FollowupReadOwnRecord ==
    \E c \in Chats, c2 \in Chats :
        /\ c # c2
        /\ pc[c] \in {"answer", "unable"}
        /\ company_data[c] = puts[c][Len(puts[c])]
        /\ c2 \in DOMAIN user_context
        /\ user_context[c2] # company_data[c]

\* C10: the content is parsed in two stages: as it stands, else from its first
\* "{" to its last "}"; an object found either way is what ai_extract returns,
\* and when neither finds one the result is no object at all.
ParsedObject(http) ==
    IF ~HasContent(http) THEN None
    ELSE IF JsonLoads(http.content).k = "dict" THEN JsonLoads(http.content)
    ELSE IF /\ JsonLoads(http.content) = Raised
            /\ BraceSpan(http.content) # <<>>
            /\ JsonLoads(BraceSpan(http.content)).k = "dict"
         THEN JsonLoads(BraceSpan(http.content))
         ELSE None
ParsesAs(result, http) ==
    IF ParsedObject(http) # None THEN result = ParsedObject(http) ELSE result.k # "dict"

C10_TwoStageOrFailure ==
    /\ p_main # NoAi => ParsesAs(p_main, p_http)
    /\ p_telebot # NoAi => ParsesAs(p_telebot, p_http)

====
